---- MODULE Spec2Model ----
(***************************************************************************)
(* Zen Sanctuary AI clock server: the five server revisions found in       *)
(* src/ (part_000 = v4.2, server.js first half = v2.0, server.js second    *)
(* half, part_001, part_002), modelled as one state machine whose          *)
(* revision is fixed at start-up.                                          *)
(*                                                                         *)
(* A request handler is an async function: it runs without interruption    *)
(* until it awaits an upstream call (the model, the weather provider).     *)
(* One action of the model is one such uninterrupted run.                  *)
(*                                                                         *)
(* Text is a sequence of one-character strings, so that toLowerCase,       *)
(* includes, the template literals, the brace pattern and JSON decoding    *)
(* are computed and not assumed.                                           *)
(***************************************************************************)
EXTENDS Integers, Sequences, FiniteSets, TLC

(***************************************************************************)
(* Bounds of the model                                                     *)
(***************************************************************************)
\* requests that may be awaiting an upstream call at the same time
MaxInFlight == 2
\* chat requests accepted in a run
MaxChats == 2
\* SpecHistory: exchanges short of a full history in the emptiest non-empty start
MaxShort == 1
\* upstream failures (model throws, weather fetch fails) injected in a run
MaxFail == 1
\* getWeather calls in a run of Spec
MaxWeatherCalls == 1
\* chat requests and getWeather calls, taken together, in a run of SpecWeather
MaxWeatherCallsW == 2
\* /api/parse-reminder requests that reach the model in a run (and chat
\* requests next to them in SpecParse)
MaxParse == 1
\* clock ticks in a run of Spec, and of SpecWeather, each of TickMs milliseconds
MaxTicks == 1
MaxTicksW == 2
\* the time between two readings of the clock: half the cache's TTL
TickMs == 300000
\* Date.now() when the server starts
StartMs == 900000
\* POST /api/chat/clear requests in a run
MaxClear == 1

(***************************************************************************)
(* Program constants                                                       *)
(***************************************************************************)
Cap_part_000 == 8
Cap_server_v2 == 10
Cap_server_v1 == 20
Cap_part_001 == 20
Cap_part_002 == 12
CacheTtlMs == 600000

Versions == {"part_000", "server_v2", "server_v1", "part_001", "part_002"}

\* history.length > N  =>  history.slice(-N)
HistoryCap(v) ==
    CASE v = "part_000" -> Cap_part_000
      [] v = "server_v2" -> Cap_server_v2
      [] v = "server_v1" -> Cap_server_v1
      [] v = "part_001" -> Cap_part_001
      [] v = "part_002" -> Cap_part_002

\* revisions that push the user turn before awaiting the model
PushesBeforeAwait(v) == v \in {"server_v1", "part_001"}
\* revisions whose model is chosen by the asynchronous initializeAI()
HasHandshake(v) == v \in {"server_v2", "part_002"}
\* revisions with POST /api/chat/clear
HasClear(v) == v \in {"server_v1", "part_001"}

(***************************************************************************)
(* JavaScript values                                                       *)
(***************************************************************************)
Undefined == [t |-> "undefined", n |-> 0, s |-> <<>>]
Null == [t |-> "null", n |-> 0, s |-> <<>>]
Str(x) == [t |-> "string", n |-> 0, s |-> x]
Num(k) == [t |-> "number", n |-> k, s |-> <<>>]
Bool(b) == [t |-> "boolean", n |-> IF b THEN 1 ELSE 0, s |-> <<>>]

\* ToBoolean: what `!x` and `x || y` test
Truthy(v) ==
    CASE v.t = "undefined" -> FALSE
      [] v.t = "null" -> FALSE
      [] v.t = "boolean" -> v.n = 1
      [] v.t = "number" -> v.n # 0
      [] v.t = "string" -> Len(v.s) > 0
      [] OTHER -> TRUE

\* x || d
OrElse(x, d) == IF Truthy(x) THEN x ELSE d

(***************************************************************************)
(* Text helpers                                                            *)
(***************************************************************************)
UpperChars == <<"A","B","C","D","E","F","G","H","I","J","K","L","M",
                "N","O","P","Q","R","S","T","U","V","W","X","Y","Z">>
LowerChars == <<"a","b","c","d","e","f","g","h","i","j","k","l","m",
                "n","o","p","q","r","s","t","u","v","w","x","y","z">>

LowerChar(c) ==
    IF \E i \in 1..Len(UpperChars) : UpperChars[i] = c
    THEN LowerChars[CHOOSE i \in 1..Len(UpperChars) : UpperChars[i] = c]
    ELSE c

\* String.prototype.toLowerCase
ToLowerCase(s) == [i \in 1..Len(s) |-> LowerChar(s[i])]

\* String.prototype.includes
Includes(s, k) ==
    \E i \in 0..(Len(s) - Len(k)) : SubSeq(s, i + 1, i + Len(k)) = k

(***************************************************************************)
(* Inputs                                                                  *)
(***************************************************************************)
\* bodies' `message` values: missing, empty, a number, plain text, and a
\* text holding the keyword "hot" inside a word and in mixed case
MsgHi == Str(<<"h","i">>)
MsgPhoto == Str(<<"p","H","o","t","o">>)
Messages == {Undefined, Str(<<>>), Num(42), MsgHi, MsgPhoto}


\* `clientTime` values: absent, or a pre-formatted local time
ClientTimes == {Undefined, Str(<<"9",":","0","5">>)}

DEFAULT_CITY == <<"N","a","s","h","v","i","l","l","e">>
OtherCity == <<"O","s","l","o">>
\* ?city= values of GET /api/weather: absent (the default parameter applies) or a name
CityParams == {Undefined, Str(OtherCity)}

\* replies of the weather provider, numbers in tenths (72.5 is 725)
MildReading ==
    [temp |-> 725, feels_like |-> 696, description |-> <<"f","o","g">>,
     humidity |-> 40, speed |-> 55]
ColdReading ==
    [temp |-> -25, feels_like |-> -64, description |-> <<"i","c","e">>,
     humidity |-> 81, speed |-> 104]
Readings == {MildReading, ColdReading}

(***************************************************************************)
(* Weather: isWeatherQuestion, the snapshot, formatWeather                 *)
(***************************************************************************)
Keywords ==
    << <<"w","e","a","t","h","e","r">>,
       <<"t","e","m","p","e","r","a","t","u","r","e">>,
       <<"t","e","m","p">>,
       <<"r","a","i","n">>,
       <<"s","n","o","w">>,
       <<"s","u","n","n","y">>,
       <<"c","l","o","u","d","y">>,
       <<"w","i","n","d">>,
       <<"c","o","l","d">>,
       <<"h","o","t">>,
       <<"w","a","r","m">>,
       <<"o","u","t","s","i","d","e">>,
       <<"j","a","c","k","e","t">>,
       <<"u","m","b","r","e","l","l","a">>,
       <<"f","o","r","e","c","a","s","t">>,
       <<"h","u","m","i","d">> >>

\* keywords.some(k => msg.toLowerCase().includes(k))
IsWeatherQuestion(msg) ==
    LET low == ToLowerCase(msg)
    IN \E i \in 1..Len(Keywords) : Includes(low, Keywords[i])

\* isWeatherQuestion on the texts a request body can hold, computed once
MessageTexts == {m.s : m \in {x \in Messages : x.t = "string"}}
WeatherQuestionTable == [t \in MessageTexts |-> IsWeatherQuestion(t)]

\* the degree sign U+00B0, one character of the text
DegreeSign == "deg"
Digits == <<"0","1","2","3","4","5","6","7","8","9">>

RECURSIVE NatToStr(_)
NatToStr(n) ==
    IF n < 10 THEN <<Digits[n + 1]>>
    ELSE NatToStr(n \div 10) \o <<Digits[(n % 10) + 1]>>

\* Number to text, as a template literal does it (integers)
IntToStr(n) == IF n < 0 THEN <<"-">> \o NatToStr(-n) ELSE NatToStr(n)

\* Math.round on a number given in tenths: floor(x + 0.5)
MathRound(tenths) == (tenths + 5) \div 10

\* null, as a snapshot-shaped value
NoData ==
    [some |-> FALSE, oid |-> 0, city |-> <<>>, temp |-> 0, feels |-> 0,
     desc |-> <<>>, humidity |-> 0, wind |-> 0]

\* const info = { city: d.name, temp: Math.round(d.main.temp), ... }
\* oid is the identity of the object the call created
MakeInfo(oid, name, d) ==
    [some |-> TRUE, oid |-> oid, city |-> name, temp |-> MathRound(d.temp),
     feels |-> MathRound(d.feels_like), desc |-> d.description,
     humidity |-> d.humidity, wind |-> MathRound(d.speed)]

WeatherOpen == <<"\n","[","W","e","a","t","h","e","r",":"," ">>
LitFeels == <<DegreeSign,"F"," ","(","f","e","e","l","s"," ">>
LitFeelsEnd == <<DegreeSign,"F",")",","," ">>
LitHumidity == <<","," ","h","u","m","i","d","i","t","y"," ">>
LitWind == <<"%",","," ","w","i","n","d"," ">>
LitMphIn == <<"m","p","h"," ","i","n"," ">>
LitClose == <<"]">>
TimeOpen == <<"\n","[","C","u","r","r","e","n","t"," ","t","i","m","e",":"," ">>

\* a slip: temp and feels change places
formatWeatherSwapped(w) ==
    IF ~w.some THEN <<>>
    ELSE WeatherOpen \o IntToStr(w.feels) \o LitFeels \o IntToStr(w.temp)
         \o LitFeelsEnd \o w.desc \o LitHumidity \o IntToStr(w.humidity)
         \o LitWind \o IntToStr(w.wind) \o LitMphIn \o w.city \o LitClose

formatWeather(w) ==
    IF ~w.some THEN <<>>
    ELSE WeatherOpen \o IntToStr(w.temp) \o LitFeels \o IntToStr(w.feels)
         \o LitFeelsEnd \o w.desc \o LitHumidity \o IntToStr(w.humidity)
         \o LitWind \o IntToStr(w.wind) \o LitMphIn \o w.city \o LitClose

\* `${v}` for the values a request body can hold
ToText(v) ==
    CASE v.t = "string" -> v.s
      [] v.t = "number" -> IntToStr(v.n)
      [] v.t = "boolean" -> IF v.n = 1 THEN <<"t","r","u","e">>
                            ELSE <<"f","a","l","s","e">>
      [] v.t = "null" -> <<"n","u","l","l">>
      [] OTHER -> <<"u","n","d","e","f","i","n","e","d">>

\* contextMsg after the clientTime step of part_000's chat handler
WithTime(message, clientTime) ==
    IF Truthy(clientTime)
    THEN message \o TimeOpen \o ToText(clientTime) \o LitClose
    ELSE message


(***************************************************************************)
(* State                                                                   *)
(***************************************************************************)
VARIABLES
    version,       \* which revision of the server runs
    apiKey,        \* GEMINI_API_KEY is set
    weatherKey,    \* OPENWEATHER_API_KEY is set
    model,         \* `model`: NoModel (null) or the model's name
    probe,         \* initializeAI: index of the handshake in flight, 0 when none
    plog,          \* the handshakes that have ended, in order: name and outcome
    history,       \* `history` / `conversationHistory`
    appended,      \* number of turns pushed since the last clear (history's log)
    req,           \* the handlers suspended at an await, by slot
    nextId,        \* identity of the next request that reaches an await
    now,           \* Date.now()
    weatherCache,  \* `weatherCache`: {data, timestamp}
    wlog,          \* the getWeather calls, in the order they started
    lastResp,      \* the response sent last
    fails,         \* upstream failures so far
    chats,         \* chat requests accepted so far
    parses,        \* parse-reminder requests that reached the model so far
    clears,        \* clear requests so far
    clearedAt      \* the request id that was next when the last clear ran, 0
                   \* when none has: requests with a lower id came before it

vars ==
    <<version, apiKey, weatherKey, model, probe, plog, history, appended, req,
      nextId, now, weatherCache, wlog, lastResp, fails, chats, parses, clears,
      clearedAt>>

NoModel == "null"
Slots == 1..MaxInFlight

\* modelOptions of initializeAI
ModelOptions(v) ==
    IF v = "server_v2"
    THEN <<"gemini-1.5-flash", "gemini-1.5-flash-latest", "gemini-1.5-pro">>
    ELSE <<"gemini-1.5-flash-latest", "gemini-1.5-flash", "gemini-pro">>

\* the model the revisions without a handshake construct at load time
StaticModel(v) == IF v = "part_000" THEN "gemini-2.0-flash" ELSE "gemini-1.5-flash"

\* the constructor call sits in a try/catch (it may fail and leave model null)
GuardedConstruction(v) == v \in {"part_000", "part_001"}

IdleSlot ==
    [kind |-> "idle", pc |-> "idle", rid |-> 0, msg |-> Undefined,
     sent |-> Undefined, hist |-> <<>>, city |-> <<>>,
     wstart |-> 0, asked |-> FALSE, weather |-> NoData, called |-> FALSE]

NoResp ==
    [rid |-> 0, ep |-> "none", status |-> 0, body |-> [k |-> "none"],
     msg |-> Undefined, called |-> FALSE]

Resp(rid, ep, status, body, msg, called) ==
    [rid |-> rid, ep |-> ep, status |-> status, body |-> body, msg |-> msg,
     called |-> called]

ErrorBody == [k |-> "error"]

UserTurn(rid, seq) == [role |-> "user", rid |-> rid, seq |-> seq]
ModelTurn(rid, seq) == [role |-> "model", rid |-> rid, seq |-> seq]

Init ==
    /\ version \in Versions
    /\ apiKey \in BOOLEAN
    /\ weatherKey \in (IF version = "part_000" THEN BOOLEAN ELSE {FALSE})
    /\ model \in (IF HasHandshake(version) \/ ~apiKey THEN {NoModel}
                  ELSE IF GuardedConstruction(version)
                       THEN {NoModel, StaticModel(version)}
                       ELSE {StaticModel(version)})
    /\ probe = (IF HasHandshake(version) /\ apiKey THEN 1 ELSE 0)
    /\ plog = <<>>
    /\ history = <<>>
    /\ appended = 0
    /\ req = [s \in Slots |-> IdleSlot]
    /\ nextId = 1
    /\ now = StartMs
    /\ weatherCache = [data |-> NoData, timestamp |-> 0]
    /\ wlog = <<>>
    /\ lastResp = NoResp
    /\ fails = 0
    /\ chats = 0
    /\ parses = 0
    /\ clears = 0
    /\ clearedAt = 0

(***************************************************************************)
(* initializeAI (server.js first server, part_002)                         *)
(***************************************************************************)
\* a slip: no break, the loop goes on after a handshake that succeeded
ProbeSucceedsNoBreak ==
    /\ probe > 0
    /\ model' = ModelOptions(version)[probe]
    /\ probe' = (IF probe < Len(ModelOptions(version)) THEN probe + 1 ELSE 0)
    /\ plog' = Append(plog, [name |-> ModelOptions(version)[probe], ok |-> TRUE])
    /\ UNCHANGED <<version, apiKey, weatherKey, history, appended, req, nextId,
                   now, weatherCache, wlog, lastResp, fails, chats, parses, clears,
                   clearedAt>>

\* the handshake in flight succeeds: model = testModel; break
ProbeSucceeds ==
    /\ probe > 0
    /\ model' = ModelOptions(version)[probe]
    /\ probe' = 0
    /\ plog' = Append(plog, [name |-> ModelOptions(version)[probe], ok |-> TRUE])
    /\ UNCHANGED <<version, apiKey, weatherKey, history, appended, req,
                   nextId, now, weatherCache, wlog, lastResp, fails, chats,
                   parses, clears, clearedAt>>

\* a slip: the loop ends at the first handshake that throws
ProbeFailsGivesUp ==
    /\ probe > 0
    /\ probe' = 0
    /\ plog' = Append(plog, [name |-> ModelOptions(version)[probe], ok |-> FALSE])
    /\ UNCHANGED <<version, apiKey, weatherKey, model, history, appended, req,
                   nextId, now, weatherCache, wlog, lastResp, fails, chats,
                   parses, clears, clearedAt>>

\* the handshake in flight throws: the loop goes on to the next name
ProbeFails ==
    /\ probe > 0
    /\ probe' = (IF probe < Len(ModelOptions(version)) THEN probe + 1 ELSE 0)
    /\ plog' = Append(plog, [name |-> ModelOptions(version)[probe], ok |-> FALSE])
    /\ UNCHANGED <<version, apiKey, weatherKey, model, history, appended, req,
                   nextId, now, weatherCache, wlog, lastResp, fails, chats,
                   parses, clears, clearedAt>>

(***************************************************************************)
(* History                                                                 *)
(***************************************************************************)
\* a slip: slice(0, n) keeps the oldest n turns
SliceFirst(h, n) == IF Len(h) <= n THEN h ELSE SubSeq(h, 1, n)

\* Array.prototype.slice(-n)
SliceLast(h, n) == IF Len(h) <= n THEN h ELSE SubSeq(h, Len(h) - n + 1, Len(h))

\* if (history.length > cap) history = history.slice(-cap)
TrimHistory(h, cap) == IF Len(h) > cap THEN SliceLast(h, cap) ELSE h

\* what the handler does to the history before it awaits the model
HistoryAtSend(v, h, rid, n) ==
    IF PushesBeforeAwait(v)
    THEN TrimHistory(Append(h, UserTurn(rid, n + 1)), HistoryCap(v))
    ELSE h

\* what the handler does to the history once the model has replied
HistoryAtReply(v, h, rid, n) ==
    IF PushesBeforeAwait(v)
    THEN Append(h, ModelTurn(rid, n + 1))
    ELSE TrimHistory(h \o <<UserTurn(rid, n + 1), ModelTurn(rid, n + 2)>>,
                     HistoryCap(v))

\* number of turns each of the two steps pushes
PushedAtSend(v) == IF PushesBeforeAwait(v) THEN 1 ELSE 0
PushedAtReply(v) == IF PushesBeforeAwait(v) THEN 1 ELSE 2

\* the history handed to model.startChat (after the persona pair)
ChatHistory(v, h) == IF PushesBeforeAwait(v) THEN SubSeq(h, 1, Len(h) - 1) ELSE h


(***************************************************************************)
(* POST /api/chat                                                          *)
(***************************************************************************)
\* the checks at the head of the handler: the status they answer, 0 when
\* the request passes them
ChatStatus(v, mdl, m) ==
    CASE v = "part_000" ->
            IF mdl = NoModel THEN 503
            ELSE IF ~Truthy(m) \/ m.t # "string" THEN 400 ELSE 0
      [] v = "server_v1" ->
            IF ~Truthy(m) \/ m.t # "string" THEN 400
            ELSE IF mdl = NoModel THEN 503 ELSE 0
      [] OTHER ->
            IF ~Truthy(m) THEN 400
            ELSE IF mdl = NoModel THEN 503 ELSE 0

\* getTimeContext(): the wall-clock rendering is left as the one character T
TimeContext == <<"C","u","r","r","e","n","t"," ","t","i","m","e",":"," ","T">>

\* `[${timeContext}]\n\nUser: ${message}`
ContextualMessage(m) ==
    <<"[">> \o TimeContext \o <<"]","\n","\n","U","s","e","r",":"," ">> \o ToText(m)

\* a slip: the weather is looked up for every message
NeedsWeatherAlways(v, m) == v = "part_000"

\* if (isWeatherQuestion(message)) in part_000's chat handler
NeedsWeather(v, m) == v = "part_000" /\ WeatherQuestionTable[m.s]

\* contextMsg of part_000 before the weather lookup; the message the other
\* revisions hand to chat.sendMessage
OutgoingMessage(v, m, ct) ==
    CASE v = "part_000" -> Str(WithTime(m.s, ct))
      [] PushesBeforeAwait(v) -> Str(ContextualMessage(m))
      [] OTHER -> m

\* contextMsg += formatWeather(weather)
WithWeather(out, w) == Str(out.s \o formatWeather(w))

HasFree == \E s \in Slots : req[s].kind = "idle"
FreeSlot == CHOOSE s \in Slots :
               /\ req[s].kind = "idle"
               /\ \A t \in Slots : t < s => req[t].kind # "idle"

\* a slip: the cache is never consulted
WeatherDecisionNoCache(key, cache, t) == IF ~key THEN "nokey" ELSE "fetch"

\* a slip: the age in milliseconds is compared with the TTL in seconds
WeatherDecisionSeconds(key, cache, t) ==
    IF ~key THEN "nokey"
    ELSE IF cache.data.some /\ (t - cache.timestamp) < CacheTtlMs \div 1000 THEN "hit"
    ELSE "fetch"

\* a slip: <= for <, a snapshot exactly 10 minutes old is still served
WeatherDecisionInclusive(key, cache, t) ==
    IF ~key THEN "nokey"
    ELSE IF cache.data.some /\ (t - cache.timestamp) <= CacheTtlMs THEN "hit"
    ELSE "fetch"

\* getWeather up to its first await: "nokey" and "hit" return at once
\* (null, the cached object), "fetch" goes to the network
WeatherDecision(key, cache, t) ==
    IF ~key THEN "nokey"
    ELSE IF cache.data.some /\ (t - cache.timestamp) < CacheTtlMs THEN "hit"
    ELSE "fetch"

WEntry(rid, city, net, done, ret, slot1) ==
    [rid |-> rid, start |-> now, city |-> city, net |-> net, done |-> done,
     ret |-> ret, slot0 |-> weatherCache, slot1 |-> slot1]

\* a request the head of the handler answers (400, 503)
ChatRejected(m) ==
    /\ ChatStatus(version, model, m) # 0
    /\ lastResp' = Resp(0, "chat", ChatStatus(version, model, m), ErrorBody, m, FALSE)
    /\ UNCHANGED <<version, apiKey, weatherKey, model, probe, plog, history,
                   appended, req, nextId, now, weatherCache, wlog, fails,
                   chats, parses, clears, clearedAt>>

\* a request that runs up to `await chat.sendMessage(...)`: no weather
\* lookup, or a lookup that getWeather answers without the network
ChatSend(m, ct, maxChats, maxCalls) ==
    /\ ChatStatus(version, model, m) = 0
    /\ chats < maxChats
    /\ HasFree
    /\ \E asked \in {NeedsWeather(version, m)} :
        \E dec \in {WeatherDecision(weatherKey, weatherCache, now)} :
          /\ asked => (dec # "fetch" /\ Len(wlog) < maxCalls)
          /\ LET s == FreeSlot
                 rid == nextId
                 w == IF asked /\ dec = "hit" THEN weatherCache.data ELSE NoData
                 h1 == HistoryAtSend(version, history, rid, appended)
                 out == OutgoingMessage(version, m, ct)
             IN /\ req' = [req EXCEPT ![s] =
                             [kind |-> "chat", pc |-> "awaitModel", rid |-> rid,
                              msg |-> m,
                              sent |-> IF asked THEN WithWeather(out, w) ELSE out,
                              hist |-> ChatHistory(version, h1),
                              city |-> IF asked THEN DEFAULT_CITY ELSE <<>>,
                              wstart |-> now, asked |-> asked, weather |-> w,
                              called |-> TRUE]]
                /\ history' = h1
                /\ appended' = appended + PushedAtSend(version)
                /\ wlog' = IF asked
                           THEN Append(wlog, WEntry(rid, DEFAULT_CITY, FALSE, TRUE, w,
                                                    weatherCache))
                           ELSE wlog
    /\ nextId' = nextId + 1
    /\ chats' = chats + 1
    /\ UNCHANGED <<version, apiKey, weatherKey, model, probe, plog, now,
                   weatherCache, lastResp, fails, parses, clears, clearedAt>>

\* part_000: a weather question whose getWeather() goes to the network:
\* the handler is suspended at `await fetch(url)`
ChatAwaitsWeather(m, ct, maxChats, maxCalls) ==
    /\ ChatStatus(version, model, m) = 0
    /\ chats < maxChats
    /\ HasFree
    /\ NeedsWeather(version, m)
    /\ WeatherDecision(weatherKey, weatherCache, now) = "fetch"
    /\ Len(wlog) < maxCalls
    /\ LET s == FreeSlot
           rid == nextId
       IN /\ req' = [req EXCEPT ![s] =
                       [kind |-> "chat", pc |-> "awaitFetch", rid |-> rid, msg |-> m,
                        sent |-> OutgoingMessage(version, m, ct), hist |-> <<>>,
                        city |-> DEFAULT_CITY, wstart |-> now, asked |-> TRUE,
                        weather |-> NoData, called |-> FALSE]]
          /\ wlog' = Append(wlog, WEntry(rid, DEFAULT_CITY, TRUE, FALSE, NoData,
                                         weatherCache))
    /\ nextId' = nextId + 1
    /\ chats' = chats + 1
    /\ UNCHANGED <<version, apiKey, weatherKey, model, probe, plog, history,
                   appended, now, weatherCache, lastResp, fails, parses,
                   clears, clearedAt>>

\* error texts a failed model call may carry (e.message)
ErrBoom == Str(<<"b","o","o","m">>)
ErrorMessages ==
    { Str(<<"q","u","o","t","a">>), Str(<<"A","P","I"," ","k","e","y">>), ErrBoom }

\* more of them: a text with a phrase of each kind ("generateContent: API
\* key not valid"), "429 Too Many", "rate" inside another word, an
\* auth-error text, a phrase in another letter case ("Quota exceeded"), and
\* a thrown value with no message
ErrorTexts ==
    ErrorMessages \cup
    { Str(<<"g","e","n","e","r","a","t","e","C","o","n","t","e","n","t",":"," ","A",
            "P","I"," ","k","e","y"," ","n","o","t"," ","v","a","l","i","d">>),
      Str(<<"4","2","9"," ","T","o","o"," ","M","a","n","y">>),
      Str(<<"f","a","i","l","e","d"," ","t","o"," ","g","e","n","e","r","a","t","e">>),
      Str(<<"a","u","t","h","e","n","t","i","c","a","t","i","o","n"," ","f","a","i",
        "l","e","d">>),
      Str(<<"Q","u","o","t","a"," ","e","x","c","e","e","d","e","d">>),
      Undefined }

\* the catch block of the chat handler
ChatErrorStatus(v, e) ==
    IF v # "part_000" THEN 500
    ELSE IF e.t = "string" /\ (\/ Includes(e.s, <<"4","2","9">>)
                               \/ Includes(e.s, <<"q","u","o","t","a">>)
                               \/ Includes(e.s, <<"r","a","t","e">>)) THEN 429
    ELSE IF e.t = "string" /\ (\/ Includes(e.s, <<"A","P","I"," ","k","e","y">>)
                               \/ Includes(e.s, <<"a","u","t","h","e","n","t","i","c",
                                                  "a","t","i","o","n">>)) THEN 503
    ELSE 500

\* a slip: replies are delivered in the order the requests arrived, so a
\* request waits for every earlier one that is still in flight
ModelRepliesInOrder(s) ==
    /\ req[s].kind = "chat"
    /\ req[s].pc = "awaitModel"
    /\ \A t \in Slots : req[t].kind # "idle" => req[t].rid >= req[s].rid
    /\ history' = HistoryAtReply(version, history, req[s].rid, appended)
    /\ appended' = appended + PushedAtReply(version)
    /\ lastResp' = Resp(req[s].rid, "chat", 200, [k |-> "reply", rid |-> req[s].rid],
                        req[s].msg, TRUE)
    /\ req' = [req EXCEPT ![s] = IdleSlot]
    /\ UNCHANGED <<version, apiKey, weatherKey, model, probe, plog, nextId,
                   now, weatherCache, wlog, fails, chats, parses, clears,
                   clearedAt>>

\* the model answers a chat: the turns are stored and 200 is sent
ModelReplies(s) ==
    /\ req[s].kind = "chat"
    /\ req[s].pc = "awaitModel"
    /\ history' = HistoryAtReply(version, history, req[s].rid, appended)
    /\ appended' = appended + PushedAtReply(version)
    /\ lastResp' = Resp(req[s].rid, "chat", 200, [k |-> "reply", rid |-> req[s].rid],
                        req[s].msg, TRUE)
    /\ req' = [req EXCEPT ![s] = IdleSlot]
    /\ UNCHANGED <<version, apiKey, weatherKey, model, probe, plog, nextId,
                   now, weatherCache, wlog, fails, chats, parses, clears,
                   clearedAt>>

\* the model call of a chat throws
ModelThrows(s, e) ==
    /\ req[s].kind = "chat"
    /\ req[s].pc = "awaitModel"
    /\ fails < MaxFail
    /\ fails' = fails + 1
    /\ lastResp' = Resp(req[s].rid, "chat", ChatErrorStatus(version, e),
                        [k |-> "error", message |-> e], req[s].msg, TRUE)
    /\ req' = [req EXCEPT ![s] = IdleSlot]
    /\ UNCHANGED <<version, apiKey, weatherKey, model, probe, plog, history,
                   appended, nextId, now, weatherCache, wlog, chats, parses,
                   clears, clearedAt>>

\* POST /api/chat/clear
Clear ==
    /\ HasClear(version)
    /\ clears < MaxClear
    /\ clears' = clears + 1
    /\ clearedAt' = nextId
    /\ history' = <<>>
    /\ appended' = 0
    /\ lastResp' = Resp(nextId, "clear", 200, [k |-> "cleared"], Undefined, FALSE)
    /\ UNCHANGED <<version, apiKey, weatherKey, model, probe, plog, req,
                   nextId, now, weatherCache, wlog, fails, chats, parses>>

(***************************************************************************)
(* getWeather and GET /api/weather (part_000)                              *)
(***************************************************************************)
\* getWeather(city = DEFAULT_CITY): the default applies to undefined
CityOf(c) == IF c.t = "undefined" THEN DEFAULT_CITY ELSE c.s

\* the wlog entry of request rid, completed with what the call returned
Returned(log, rid, ret, slot1) ==
    [i \in 1..Len(log) |->
        IF log[i].rid = rid
        THEN [log[i] EXCEPT !.done = TRUE, !.ret = ret, !.slot1 = slot1]
        ELSE log[i]]

\* a request answered without a network call: 503 (no key), or the cached object
WeatherAnswered(c, maxCalls) ==
    /\ version = "part_000"
    /\ WeatherDecision(weatherKey, weatherCache, now) # "fetch"
    /\ weatherKey => Len(wlog) < maxCalls
    /\ IF ~weatherKey
       THEN /\ lastResp' = Resp(0, "weather", 503, ErrorBody, c, FALSE)
            /\ wlog' = wlog
       ELSE /\ lastResp' = Resp(0, "weather", 200,
                                [k |-> "weather", info |-> weatherCache.data], c, FALSE)
            /\ wlog' = Append(wlog, WEntry(0, CityOf(c), FALSE, TRUE,
                                           weatherCache.data, weatherCache))
    /\ UNCHANGED <<version, apiKey, weatherKey, model, probe, plog, history,
                   appended, req, nextId, now, weatherCache, fails, chats,
                   parses, clears, clearedAt>>

\* a request whose getWeather() goes to the network
WeatherAwaitsFetch(c, maxCalls) ==
    /\ version = "part_000"
    /\ WeatherDecision(weatherKey, weatherCache, now) = "fetch"
    /\ Len(wlog) < maxCalls
    /\ HasFree
    /\ req' = [req EXCEPT ![FreeSlot] =
                 [IdleSlot EXCEPT !.kind = "weather", !.pc = "awaitFetch",
                                  !.rid = nextId, !.msg = c, !.city = CityOf(c),
                                  !.wstart = now, !.asked = TRUE]]
    /\ wlog' = Append(wlog, WEntry(nextId, CityOf(c), TRUE, FALSE, NoData, weatherCache))
    /\ nextId' = nextId + 1
    /\ UNCHANGED <<version, apiKey, weatherKey, model, probe, plog, history,
                   appended, now, weatherCache, lastResp, fails, chats,
                   parses, clears, clearedAt>>

\* what the suspended handler does once getWeather has returned `ret`
AfterWeather(s, ret) ==
    IF req[s].kind = "chat"
    THEN /\ req' = [req EXCEPT ![s] =
                      [req[s] EXCEPT
                          !.pc = "awaitModel",
                          !.sent = WithWeather(req[s].sent, ret),
                          !.hist = ChatHistory(version, history),
                          !.weather = ret,
                          !.called = TRUE]]
         /\ lastResp' = lastResp
    ELSE /\ req' = [req EXCEPT ![s] = IdleSlot]
         /\ lastResp' =
               IF ret.some
               THEN Resp(req[s].rid, "weather", 200, [k |-> "weather", info |-> ret],
                         req[s].msg, FALSE)
               ELSE Resp(req[s].rid, "weather", 500, ErrorBody, req[s].msg, FALSE)

\* the slot the fetching call writes: { data: info, timestamp: now }, with the
\* `now` the call read before it awaited
StoredSlot(info, start) == [data |-> info, timestamp |-> start]

\* fetch and res.json() succeed with reading d
FetchOk(s, d) ==
    /\ req[s].pc = "awaitFetch"
    /\ LET info == MakeInfo(req[s].rid, req[s].city, d)
       IN /\ weatherCache' = StoredSlot(info, req[s].wstart)
          /\ wlog' = Returned(wlog, req[s].rid, info, StoredSlot(info, req[s].wstart))
          /\ AfterWeather(s, info)
    /\ UNCHANGED <<version, apiKey, weatherKey, model, probe, plog, history,
                   appended, nextId, now, fails, chats, parses, clears,
                   clearedAt>>

\* a slip: the failing call empties the slot
FetchFailsClearsSlot(s) ==
    /\ req[s].pc = "awaitFetch"
    /\ fails < MaxFail
    /\ fails' = fails + 1
    /\ weatherCache' = [data |-> NoData, timestamp |-> 0]
    /\ wlog' = Returned(wlog, req[s].rid, NoData, weatherCache')
    /\ AfterWeather(s, NoData)
    /\ UNCHANGED <<version, apiKey, weatherKey, model, probe, plog, history,
                   appended, nextId, now, chats, parses, clears, clearedAt>>

\* fetch throws, answers a non-success status, or its body cannot be read
FetchFails(s) ==
    /\ req[s].pc = "awaitFetch"
    /\ fails < MaxFail
    /\ fails' = fails + 1
    /\ wlog' = Returned(wlog, req[s].rid, NoData, weatherCache)
    /\ AfterWeather(s, NoData)
    /\ UNCHANGED <<version, apiKey, weatherKey, model, probe, plog, history,
                   appended, nextId, now, weatherCache, chats, parses, clears,
                   clearedAt>>

\* time passes
Tick(maxTicks) ==
    /\ now < StartMs + maxTicks * TickMs
    /\ now' = now + TickMs
    /\ UNCHANGED <<version, apiKey, weatherKey, model, probe, plog, history,
                   appended, req, nextId, weatherCache, wlog, lastResp, fails,
                   chats, parses, clears, clearedAt>>

(***************************************************************************)
(* POST /api/parse-reminder (part_000): the brace pattern and JSON.parse   *)
(***************************************************************************)
Whitespace == {" ", "\n", "\t", "\r"}

RECURSIVE SkipWs(_, _)
SkipWs(s, i) == IF i <= Len(s) /\ s[i] \in Whitespace THEN SkipWs(s, i + 1) ELSE i

RECURSIVE SkipWsBack(_, _)
SkipWsBack(s, j) == IF j >= 1 /\ s[j] \in Whitespace THEN SkipWsBack(s, j - 1) ELSE j

\* String.prototype.trim
TrimText(s) ==
    LET a == SkipWs(s, 1)
        b == SkipWsBack(s, Len(s))
    IN IF a > b THEN <<>> ELSE SubSeq(s, a, b)

\* the first position >= i of character c in s, 0 when there is none
IndexFrom(s, c, i) ==
    IF \E j \in i..Len(s) : s[j] = c
    THEN CHOOSE j \in i..Len(s) : s[j] = c /\ \A k \in i..(j - 1) : s[k] # c
    ELSE 0

\* text.match(/\{[\s\S]*?\}/): from the leftmost "{" to the first "}" after it
BraceMatch(text) ==
    LET a == IndexFrom(text, "{", 1)
        b == IF a = 0 THEN 0 ELSE IndexFrom(text, "}", a + 1)
    IN IF a = 0 \/ b = 0 THEN [found |-> FALSE, s |-> <<>>]
       ELSE [found |-> TRUE, s |-> SubSeq(text, a, b)]

(* JSON.parse, for the documents the model's texts below hold: an object   *)
(* whose values are strings (escapes \" \\ \/ \n), integers, true, false   *)
(* and null.  Anything else is a SyntaxError.                              *)
Fail == [ok |-> FALSE, pos |-> 0, val |-> Undefined]
Ok(p, v) == [ok |-> TRUE, pos |-> p, val |-> v]
FailObj == [ok |-> FALSE, pos |-> 0, members |-> <<>>]

RECURSIVE ScanString(_, _, _)
\* the string literal whose opening quote is just before position i
ScanString(s, i, acc) ==
    IF i > Len(s) THEN Fail
    ELSE IF s[i] = "\"" THEN Ok(i + 1, Str(acc))
    ELSE IF s[i] \in {"\n", "\t", "\r"} THEN Fail
    ELSE IF s[i] = "\\"
         THEN IF i + 1 > Len(s) THEN Fail
              ELSE IF s[i + 1] \in {"\"", "\\", "/"}
                   THEN ScanString(s, i + 2, Append(acc, s[i + 1]))
              ELSE IF s[i + 1] = "n" THEN ScanString(s, i + 2, Append(acc, "\n"))
              ELSE Fail
    ELSE ScanString(s, i + 1, Append(acc, s[i]))

IsDigit(c) == \E d \in 1..Len(Digits) : Digits[d] = c
DigitVal(c) == (CHOOSE d \in 1..Len(Digits) : Digits[d] = c) - 1

RECURSIVE ScanDigits(_, _, _)
ScanDigits(s, i, acc) ==
    IF i <= Len(s) /\ IsDigit(s[i])
    THEN ScanDigits(s, i + 1, acc * 10 + DigitVal(s[i]))
    ELSE [pos |-> i, n |-> acc]

ScanNumber(s, i) ==
    LET neg == s[i] = "-"
        j == IF neg THEN i + 1 ELSE i
    IN IF j > Len(s) \/ ~IsDigit(s[j]) THEN Fail
       ELSE IF s[j] = "0" /\ j + 1 <= Len(s) /\ IsDigit(s[j + 1]) THEN Fail
       ELSE LET d == ScanDigits(s, j, 0)
            IN IF d.pos <= Len(s) /\ s[d.pos] \in {".", "e", "E"} THEN Fail
               ELSE Ok(d.pos, Num(IF neg THEN 0 - d.n ELSE d.n))

StartsWith(s, i, lit) ==
    i + Len(lit) - 1 <= Len(s) /\ SubSeq(s, i, i + Len(lit) - 1) = lit

ScanValue(s, i) ==
    IF i > Len(s) THEN Fail
    ELSE IF s[i] = "\"" THEN ScanString(s, i + 1, <<>>)
    ELSE IF s[i] = "-" \/ IsDigit(s[i]) THEN ScanNumber(s, i)
    ELSE IF StartsWith(s, i, <<"t","r","u","e">>) THEN Ok(i + 4, Bool(TRUE))
    ELSE IF StartsWith(s, i, <<"f","a","l","s","e">>) THEN Ok(i + 5, Bool(FALSE))
    ELSE IF StartsWith(s, i, <<"n","u","l","l">>) THEN Ok(i + 4, Null)
    ELSE Fail

RECURSIVE ScanMembers(_, _, _)
\* the members of an object, from the first character of a member
ScanMembers(s, i, acc) ==
    IF i > Len(s) \/ s[i] # "\"" THEN FailObj
    ELSE LET k == ScanString(s, i + 1, <<>>)
         IN IF ~k.ok THEN FailObj
            ELSE LET c == SkipWs(s, k.pos)
                 IN IF c > Len(s) \/ s[c] # ":" THEN FailObj
                    ELSE LET v == ScanValue(s, SkipWs(s, c + 1))
                         IN IF ~v.ok THEN FailObj
                            ELSE LET e == SkipWs(s, v.pos)
                                     acc2 == Append(acc, [key |-> k.val.s, val |-> v.val])
                                 IN IF e > Len(s) THEN FailObj
                                    ELSE IF s[e] = "}"
                                         THEN [ok |-> TRUE, pos |-> e + 1, members |-> acc2]
                                    ELSE IF s[e] = ","
                                         THEN ScanMembers(s, SkipWs(s, e + 1), acc2)
                                    ELSE FailObj

\* JSON.parse of a text that starts with "{": ok and the members, or not ok
JsonParse(s) ==
    LET a == SkipWs(s, 1)
    IN IF a > Len(s) \/ s[a] # "{" THEN FailObj
       ELSE LET b == SkipWs(s, a + 1)
                r == IF b <= Len(s) /\ s[b] = "}"
                     THEN [ok |-> TRUE, pos |-> b + 1, members |-> <<>>]
                     ELSE ScanMembers(s, b, <<>>)
            IN IF r.ok /\ SkipWs(s, r.pos) = Len(s) + 1 THEN r ELSE FailObj

\* parsed.key: the value of the last member of that name, undefined when absent
Field(members, key) ==
    LET idx == {i \in 1..Len(members) : members[i].key = key}
    IN IF idx = {} THEN Undefined
       ELSE members[CHOOSE i \in idx : \A j \in idx : j <= i].val

KeyIsReminder == <<"i","s","R","e","m","i","n","d","e","r">>
KeyTask == <<"t","a","s","k">>
KeyMinutesFromNow == <<"m","i","n","u","t","e","s","F","r","o","m","N","o","w">>
KeyRecurring == <<"r","e","c","u","r","r","i","n","g">>
KeyIntervalMinutes == <<"i","n","t","e","r","v","a","l","M","i","n","u","t","e","s">>

DefaultReminder ==
    [isReminder |-> Bool(FALSE), task |-> Str(<<>>), minutesFromNow |-> Num(0),
     recurring |-> Bool(FALSE), intervalMinutes |-> Num(0)]

\* a slip: minutesFromNow and intervalMinutes read each other's key
ReminderFromSwapped(members) ==
    [isReminder |-> OrElse(Field(members, KeyIsReminder), Bool(FALSE)),
     task |-> OrElse(Field(members, KeyTask), Str(<<>>)),
     minutesFromNow |-> OrElse(Field(members, KeyIntervalMinutes), Num(0)),
     recurring |-> OrElse(Field(members, KeyRecurring), Bool(FALSE)),
     intervalMinutes |-> OrElse(Field(members, KeyMinutesFromNow), Num(0))]

\* a slip: one falsy field makes the whole record the default one
ReminderFromAllOrNothing(members) ==
    IF \A k \in {KeyIsReminder, KeyTask, KeyMinutesFromNow, KeyRecurring,
                  KeyIntervalMinutes} : Truthy(Field(members, k))
    THEN [isReminder |-> Field(members, KeyIsReminder),
          task |-> Field(members, KeyTask),
          minutesFromNow |-> Field(members, KeyMinutesFromNow),
          recurring |-> Field(members, KeyRecurring),
          intervalMinutes |-> Field(members, KeyIntervalMinutes)]
    ELSE DefaultReminder

\* { isReminder: parsed.isReminder || false, task: parsed.task || '', ... }
ReminderFrom(members) ==
    [isReminder |-> OrElse(Field(members, KeyIsReminder), Bool(FALSE)),
     task |-> OrElse(Field(members, KeyTask), Str(<<>>)),
     minutesFromNow |-> OrElse(Field(members, KeyMinutesFromNow), Num(0)),
     recurring |-> OrElse(Field(members, KeyRecurring), Bool(FALSE)),
     intervalMinutes |-> OrElse(Field(members, KeyIntervalMinutes), Num(0))]

\* the inner try block: what the handler answers for the model's text
ReminderOfText(text) ==
    LET m == BraceMatch(TrimText(text))
    IN IF ~m.found THEN DefaultReminder
       ELSE LET parsed == JsonParse(m.s)
            IN IF parsed.ok THEN ReminderFrom(parsed.members) ELSE DefaultReminder

\* texts the model may answer a parse prompt with
TextFull ==
    <<"{","\"","i","s","R","e","m","i","n","d","e","r","\"",":","t","r","u",
          "e",",","\"","t","a","s","k","\"",":","\"","s","t","r","e","t","c",
          "h","\"",",","\"","m","i","n","u","t","e","s","F","r","o","m","N",
          "o","w","\"",":","3","0",",","\"","r","e","c","u","r","r","i","n",
          "g","\"",":","f","a","l","s","e",",","\"","i","n","t","e","r","v",
          "a","l","M","i","n","u","t","e","s","\"",":","0","}">>
TextProse ==
    <<"S","o","r","r","y",","," ","n","o",".">>
TextBadJson ==
    <<"{","o","o","p","s","}">>
TextFenced ==
    <<"~","~","~","j","s","o","n","\n","{","\"","i","s","R","e","m","i","n",
          "d","e","r","\"",":","t","r","u","e",",","\"","t","a","s","k","\"",
          ":","\"","t","e","a","\"","}","\n","~","~","~">>
TextWrongTypes ==
    <<"{","\"","i","s","R","e","m","i","n","d","e","r","\"",":","\"","y","e",
          "s","\"",",","\"","t","a","s","k","\"",":","7",",","\"","m","i","n",
          "u","t","e","s","F","r","o","m","N","o","w","\"",":","\"","3","0",
          "\"","}">>
TextBraceInString ==
    <<"{","\"","t","a","s","k","\"",":","\"","a","}","b","\"",",","\"","i",
          "s","R","e","m","i","n","d","e","r","\"",":","t","r","u","e","}">>
TextExtraKey ==
    <<"S","u","r","e","!"," ","{","\"","i","s","R","e","m","i","n","d","e",
          "r","\"",":","t","r","u","e",","," ","\"","m","i","n","u","t","e",
          "s","F","r","o","m","N","o","w","\"",":","5",","," ","\"","e","x",
          "t","r","a","\"",":","1","}"," ","o","r"," ","{","x","}">>
TextCloseOpen ==
    <<"}","{">>
TextNulls ==
    <<"{","\"","i","s","R","e","m","i","n","d","e","r","\"",":","n","u","l",
          "l",",","\"","t","a","s","k","\"",":","n","u","l","l",",","\"","r",
          "e","c","u","r","r","i","n","g","\"",":","t","r","u","e",",","\"",
          "i","n","t","e","r","v","a","l","M","i","n","u","t","e","s","\"",
          ":","-","1","}">>

\* the answer the prompt's last example shows for a message that is no reminder
TextDefault ==
    <<"{","\"","i","s","R","e","m","i","n","d","e","r","\"",":","f","a","l",
          "s","e",",","\"","t","a","s","k","\"",":","\"","\"",",","\"","m",
          "i","n","u","t","e","s","F","r","o","m","N","o","w","\"",":","0",
          ",","\"","r","e","c","u","r","r","i","n","g","\"",":","f","a","l",
          "s","e",",","\"","i","n","t","e","r","v","a","l","M","i","n","u",
          "t","e","s","\"",":","0","}">>

\* a complete answer whose task holds a closing brace
TextBraceInTask ==
    <<"{","\"","i","s","R","e","m","i","n","d","e","r","\"",":","t","r","u",
      "e",",","\"","t","a","s","k","\"",":","\"","t","y","p","e"," ","}",
      "\"",",","\"","m","i","n","u","t","e","s","F","r","o","m","N","o",
      "w","\"",":","5",",","\"","r","e","c","u","r","r","i","n","g","\"",
      ":","f","a","l","s","e",",","\"","i","n","t","e","r","v","a","l",
      "M","i","n","u","t","e","s","\"",":","0","}">>

ModelTexts ==
    { TextFull, TextProse, TextBadJson, TextFenced, TextWrongTypes,
      TextBraceInString, TextExtraKey, TextCloseOpen, TextNulls, TextDefault,
      TextBraceInTask }

\* the two messages of the prompt's first and last example
MsgStretch ==
    Str(<<"r","e","m","i","n","d"," ","m","e"," ","i","n"," ","3","0"," ","m","i",
          "n","u","t","e","s"," ","t","o"," ","s","t","r","e","t","c","h">>)
MsgWeatherQ == Str(<<"w","h","a","t","'","s"," ","t","h","e"," ","w","e","a","t","h","e","r">>)
ExampleMessages == {MsgStretch, MsgWeatherQ}

\* the handler's answer to each of the model's texts, computed once
ReminderTable == [t \in ModelTexts |-> ReminderOfText(t)]

PromptHead == <<"E","x","t","r","a","c","t"," ","r","e","m","i","n","d","e","r"," ","d",
      "e","t","a","i","l","s"," ","f","r","o","m"," ","t","h","i","s"," ",
      "m","e","s","s","a","g","e","."," ","C","u","r","r","e","n","t"," ",
      "t","i","m","e",":"," ">>
PromptMid == <<".","\n","M","e","s","s","a","g","e",":"," ","\"">>
PromptTail == <<"\"","\n","\n","R","e","s","p","o","n","d"," ","O","N","L","Y"," ","w",
      "i","t","h"," ","v","a","l","i","d"," ","J","S","O","N">>

\* parsePrompt: the rules and examples after "Respond ONLY with valid JSON"
\* are a fixed text, left out; now.toLocaleString() is left as the character T
ParsePrompt(m) == PromptHead \o <<"T">> \o PromptMid \o ToText(m) \o PromptTail

\* a slip: the message is tested before the model
ParseStatusMessageFirst(mdl, m) ==
    IF ~Truthy(m) THEN 400 ELSE IF mdl = NoModel THEN 503 ELSE 0

\* a slip: the check for a missing model is left out
ParseStatusNoModelCheck(mdl, m) == IF ~Truthy(m) THEN 400 ELSE 0

\* the checks at the head of the handler: 503, 400, or 0 when the request passes
ParseStatus(mdl, m) ==
    IF mdl = NoModel THEN 503 ELSE IF ~Truthy(m) THEN 400 ELSE 0

\* a request the head of the handler answers
ParseRejected(m) ==
    /\ version = "part_000"
    /\ ParseStatus(model, m) # 0
    /\ lastResp' = Resp(0, "parse", ParseStatus(model, m), ErrorBody, m, FALSE)
    /\ UNCHANGED <<version, apiKey, weatherKey, model, probe, plog, history,
                   appended, req, nextId, now, weatherCache, wlog, fails,
                   chats, parses, clears, clearedAt>>

\* a request that runs up to `await model.generateContent(parsePrompt)`
ParseSend(m) ==
    /\ version = "part_000"
    /\ ParseStatus(model, m) = 0
    /\ parses < MaxParse
    /\ HasFree
    /\ req' = [req EXCEPT ![FreeSlot] =
                 [IdleSlot EXCEPT !.kind = "parse", !.pc = "awaitModel",
                                  !.rid = nextId, !.msg = m,
                                  !.sent = Str(ParsePrompt(m)), !.called = TRUE]]
    /\ nextId' = nextId + 1
    /\ parses' = parses + 1
    /\ UNCHANGED <<version, apiKey, weatherKey, model, probe, plog, history,
                   appended, now, weatherCache, wlog, lastResp, fails, chats,
                   clears, clearedAt>>

\* a slip: no inner try, a text that cannot be decoded reaches the outer catch
ParseAnswerNoInnerCatch(rid, m, text) ==
    IF ReminderTable[text] = DefaultReminder
    THEN Resp(rid, "parse", 500, [k |-> "error", text |-> text], m, TRUE)
    ELSE Resp(rid, "parse", 200,
              [k |-> "reminder", rec |-> ReminderTable[text], text |-> text], m, TRUE)

\* the response once the model has answered with `text` (kept in the body
\* record next to the reminder the handler sends)
ParseAnswer(rid, m, text) ==
    Resp(rid, "parse", 200,
         [k |-> "reminder", rec |-> ReminderTable[text], text |-> text], m, TRUE)

\* the model answers with `text`
ParseReplies(s, text) ==
    /\ req[s].kind = "parse"
    /\ req[s].pc = "awaitModel"
    /\ lastResp' = ParseAnswer(req[s].rid, req[s].msg, text)
    /\ req' = [req EXCEPT ![s] = IdleSlot]
    /\ UNCHANGED <<version, apiKey, weatherKey, model, probe, plog, history,
                   appended, nextId, now, weatherCache, wlog, fails, chats,
                   parses, clears, clearedAt>>

\* generateContent (or response.text()) throws: the outer catch answers 500
ParseThrows(s) ==
    /\ req[s].kind = "parse"
    /\ req[s].pc = "awaitModel"
    /\ fails < MaxFail
    /\ fails' = fails + 1
    /\ lastResp' = Resp(req[s].rid, "parse", 500, ErrorBody, req[s].msg, TRUE)
    /\ req' = [req EXCEPT ![s] = IdleSlot]
    /\ UNCHANGED <<version, apiKey, weatherKey, model, probe, plog, history,
                   appended, nextId, now, weatherCache, wlog, chats, parses,
                   clears, clearedAt>>

(***************************************************************************)
(* GET /api/health                                                         *)
(***************************************************************************)
\* apiKeyMissing of server.js' second server and of part_001 (where a failed
\* construction sets it too, so that it is true exactly when model is null)
ApiKeyMissing(v, mdl, key) == IF v = "part_001" THEN mdl = NoModel ELSE ~key

\* the `status` field of the health body
HealthStatus(v, mdl, key) ==
    CASE v = "part_000" -> IF mdl # NoModel THEN "ok" ELSE "degraded"
      [] v \in {"server_v1", "part_001"} ->
            IF ApiKeyMissing(v, mdl, key) THEN "degraded" ELSE "ok"
      [] OTHER -> "ok"

\* the field that tells whether the AI is usable: active, aiActive, aiEnabled
HealthActive(v, mdl, key) ==
    IF v \in {"server_v1", "part_001"} THEN ~ApiKeyMissing(v, mdl, key)
    ELSE mdl # NoModel

\* the field that names the model: model, activeModel, modelName ("-" when
\* the body has no such field)
HealthModelName(v, mdl) ==
    CASE v = "part_000" -> StaticModel(v)
      [] HasHandshake(v) -> IF mdl = NoModel THEN "none" ELSE mdl
      [] OTHER -> "-"

Health ==
    /\ lastResp' = Resp(0, "health", 200,
                        [k |-> "health", status |-> HealthStatus(version, model, apiKey),
                         active |-> HealthActive(version, model, apiKey),
                         name |-> HealthModelName(version, model)],
                        Undefined, FALSE)
    /\ UNCHANGED <<version, apiKey, weatherKey, model, probe, plog, history,
                   appended, req, nextId, now, weatherCache, wlog, fails,
                   chats, parses, clears, clearedAt>>

(***************************************************************************)
(* Spec: every revision, every endpoint, from start-up                     *)
(***************************************************************************)
Next ==
    \/ ProbeSucceeds
    \/ ProbeFails
    \/ \E m \in Messages : ChatRejected(m)
    \/ \E m \in Messages : ChatSend(m, Undefined, MaxChats, MaxWeatherCalls)
    \/ \E m \in Messages : ChatAwaitsWeather(m, Undefined, MaxChats, MaxWeatherCalls)
    \/ \E s \in Slots : ModelReplies(s)
    \/ \E s \in Slots, e \in ErrorMessages : ModelThrows(s, e)
    \/ Clear
    \/ \E c \in CityParams : WeatherAnswered(c, MaxWeatherCalls)
    \/ \E c \in CityParams : WeatherAwaitsFetch(c, MaxWeatherCalls)
    \/ \E s \in Slots : FetchOk(s, MildReading)
    \/ \E s \in Slots : FetchFails(s)
    \/ \E m \in Messages : ParseRejected(m)
    \/ \E m \in Messages : ParseSend(m)
    \/ \E s \in Slots, t \in {TextFull, TextProse} : ParseReplies(s, t)
    \/ \E s \in Slots : ParseThrows(s)
    \/ Health
    \/ Tick(MaxTicks)

Spec == Init /\ [][Next]_vars

(***************************************************************************)
(* SpecHistory: the chat handlers of the five revisions around the cap.    *)
(* A run starts at start-up, or after k chats made one after the other     *)
(* and answered, with k at most MaxShort below the number that fills the   *)
(* history.                                                                *)
(***************************************************************************)
\* the history after k answered chats made one after the other
Prefilled(k) ==
    [i \in 1..(2 * k) |->
        IF i % 2 = 1 THEN UserTurn((i + 1) \div 2, i) ELSE ModelTurn(i \div 2, i)]

StartLevels(v) ==
    {0} \cup {k \in 1..(HistoryCap(v) \div 2) : k >= (HistoryCap(v) \div 2) - MaxShort}

HistoryMessages == {Str(<<>>), MsgHi}

InitHistory ==
    /\ version \in Versions
    /\ apiKey = TRUE
    /\ weatherKey = FALSE
    /\ \E k \in StartLevels(version) :
          /\ history = Prefilled(k)
          /\ appended = 2 * k
          /\ nextId = k + 1
          /\ IF HasHandshake(version)
             THEN IF k = 0 THEN model = NoModel /\ probe = 1 /\ plog = <<>>
                  ELSE /\ model = ModelOptions(version)[1]
                       /\ probe = 0
                       /\ plog = <<[name |-> ModelOptions(version)[1], ok |-> TRUE]>>
             ELSE model = StaticModel(version) /\ probe = 0 /\ plog = <<>>
    /\ req = [s \in Slots |-> IdleSlot]
    /\ now = StartMs
    /\ weatherCache = [data |-> NoData, timestamp |-> 0]
    /\ wlog = <<>>
    /\ lastResp = NoResp
    /\ fails = 0
    /\ chats = 0
    /\ parses = 0
    /\ clears = 0
    /\ clearedAt = 0

NextHistory ==
    \/ ProbeSucceeds
    \/ ProbeFails
    \/ \E m \in HistoryMessages : ChatRejected(m)
    \/ \E m \in HistoryMessages : ChatSend(m, Undefined, MaxChats, 0)
    \/ \E s \in Slots : ModelReplies(s)
    \/ \E s \in Slots : ModelThrows(s, ErrBoom)
    \/ Clear

SpecHistory == InitHistory /\ [][NextHistory]_vars

(***************************************************************************)
(* SpecWeather: part_000 with a model, its chat and weather endpoints and  *)
(* the clock                                                               *)
(***************************************************************************)
WeatherMessages == {MsgHi, MsgPhoto}

InitWeather == Init /\ version = "part_000" /\ model # NoModel

\* chat requests and getWeather calls share one budget, MaxWeatherCallsW
NextWeather ==
    \/ \E m \in WeatherMessages, ct \in ClientTimes :
          ChatSend(m, ct, MaxWeatherCallsW - Len(wlog), MaxWeatherCallsW)
    \/ \E m \in WeatherMessages, ct \in ClientTimes :
          ChatAwaitsWeather(m, ct, MaxWeatherCallsW - Len(wlog), MaxWeatherCallsW)
    \/ \E s \in Slots : ModelReplies(s)
    \/ \E s \in Slots : ModelThrows(s, ErrBoom)
    \/ \E c \in CityParams : WeatherAnswered(c, MaxWeatherCallsW - chats)
    \/ \E c \in CityParams : WeatherAwaitsFetch(c, MaxWeatherCallsW - chats)
    \/ \E s \in Slots, d \in Readings : FetchOk(s, d)
    \/ \E s \in Slots : FetchFails(s)
    \/ Tick(MaxTicksW)

SpecWeather == InitWeather /\ [][NextWeather]_vars


(***************************************************************************)
(* SpecParse: part_000, its parse-reminder endpoint with every text the    *)
(* model may answer, next to a chat                                        *)
(***************************************************************************)
InitParse == Init /\ version = "part_000"

NextParse ==
    \/ \E m \in Messages : ParseRejected(m)
    \/ \E m \in Messages \cup ExampleMessages : ParseSend(m)
    \/ \E s \in Slots, t \in ModelTexts : ParseReplies(s, t)
    \/ \E s \in Slots : ParseThrows(s)
    \/ ChatSend(MsgHi, Undefined, MaxParse, 0)
    \/ \E s \in Slots : ModelReplies(s)

SpecParse == InitParse /\ [][NextParse]_vars


(***************************************************************************)
(* SpecFrame: part_000, its parse-reminder endpoint next to a chat and a   *)
(* weather request that fill the history and the slot                      *)
(***************************************************************************)
NextFrame ==
    \/ \E m \in Messages : ParseRejected(m)
    \/ ParseSend(MsgHi)
    \/ \E s \in Slots, t \in {TextFull, TextProse} : ParseReplies(s, t)
    \/ \E s \in Slots : ParseThrows(s)
    \/ ChatSend(MsgHi, Undefined, MaxParse, 0)
    \/ \E s \in Slots : ModelReplies(s)
    \/ WeatherAwaitsFetch(Undefined, MaxWeatherCalls)
    \/ \E s \in Slots : FetchOk(s, MildReading)

SpecFrame == InitParse /\ [][NextFrame]_vars


(***************************************************************************)
(* SpecBlocked: the revisions without a handshake, with one request whose  *)
(* upstream call never returns.  The first request that has to wait for    *)
(* the model or the weather provider takes the first slot and stays there; *)
(* the upstream calls of the requests in the other slots return.           *)
(***************************************************************************)
HungSlot == CHOOSE s \in Slots : \A t \in Slots : s <= t
OtherSlots == Slots \ {HungSlot}

InitBlocked == Init /\ ~HasHandshake(version) /\ model # NoModel

\* requests that wait for an upstream call share one budget, MaxChats

NextBlocked ==
    \/ ChatRejected(Str(<<>>))
    \/ \E m \in {MsgHi, MsgPhoto} :
          ChatSend(m, Undefined, MaxChats - parses - Len(wlog), MaxChats)
    \/ ChatAwaitsWeather(MsgPhoto, Undefined, MaxChats - parses - Len(wlog), MaxChats)
    \/ \E s \in OtherSlots : ModelReplies(s)
    \/ \E s \in OtherSlots : ModelThrows(s, ErrBoom)
    \/ Clear
    \/ WeatherAnswered(Undefined, MaxChats - parses - chats)
    \/ (parses + chats < MaxChats /\ WeatherAwaitsFetch(Undefined, MaxChats - parses - chats))
    \/ \E s \in OtherSlots : FetchOk(s, MildReading)
    \/ \E s \in OtherSlots : FetchFails(s)
    \/ ParseRejected(Str(<<>>))
    \/ (parses + chats + Len(wlog) < MaxChats /\ ParseSend(MsgHi))
    \/ \E s \in OtherSlots : ParseReplies(s, TextFull)
    \/ \E s \in OtherSlots : ParseThrows(s)
    \/ Health

\* an upstream call of a request outside the first slot returns: the promise
\* settles and the event loop resumes the handler
UpstreamReturns ==
    \A s \in OtherSlots :
        /\ WF_vars(ModelReplies(s))
        /\ WF_vars(FetchOk(s, MildReading))
        /\ WF_vars(ParseReplies(s, TextFull))

SpecBlocked == InitBlocked /\ [][NextBlocked]_vars /\ UpstreamReturns


(***************************************************************************)
(* SpecStartup: every revision from its start, with the handshakes, chats  *)
(* and health requests                                                     *)
(***************************************************************************)
NextStartup ==
    \/ ProbeSucceeds
    \/ ProbeFails
    \/ \E m \in HistoryMessages : ChatRejected(m)
    \/ ChatSend(MsgHi, Undefined, MaxChats, 0)
    \/ \E s \in Slots : ModelReplies(s)
    \/ Health

SpecStartup == Init /\ [][NextStartup]_vars

(***************************************************************************)
(* SpecErrors: part_000 with a model, chats whose model call throws        *)
(***************************************************************************)
InitErrors == Init /\ version = "part_000" /\ model # NoModel

NextErrors ==
    \/ \E m \in {MsgHi, Num(42)} : ChatRejected(m)
    \/ ChatSend(MsgHi, Undefined, MaxChats, 0)
    \/ \E s \in Slots : ModelReplies(s)
    \/ \E s \in Slots, e \in ErrorTexts : ModelThrows(s, e)

SpecErrors == InitErrors /\ [][NextErrors]_vars

(***************************************************************************)
(* The claims                                                              *)
(***************************************************************************)

\* C1 (as claimed): in every revision the stored history never holds more
\* turns than the revision's cap.
C1_HistoryWithinCap == Len(history) <= HistoryCap(version)

\* C2: the stored history is the last Len(history) turns pushed since the
\* last clear, in the order they were pushed: trimming drops only the oldest.
C2_HistoryIsSuffix ==
    /\ Len(history) <= appended
    /\ \A i \in 1..Len(history) : history[i].seq = appended - Len(history) + i

\* C2 witness: turns have been trimmed away, with no clear in between,
\* while another request is still awaiting the model
C2_Witness ==
    /\ clears = 0
    /\ Len(history) > 0
    /\ Len(history) < appended
    /\ \E s \in Slots : req[s].kind = "chat"

\* C3 (as claimed): a chat whose message is empty, missing or not a string
\* is answered 400 and the model is not invoked for it.
C3_InvalidMessageIs400 ==
    (lastResp.ep = "chat" /\ ~(Truthy(lastResp.msg) /\ lastResp.msg.t = "string"))
        => (lastResp.status = 400 /\ ~lastResp.called)


\* the getWeather calls made so far, in the order they started
Calls == 1..Len(wlog)

\* C4 (as claimed): of any two getWeather calls that start within 10 minutes
\* of each other, the later one issues no network request and returns the
\* object the earlier one returned.
C4_AnyTwoCallsShareOneFetch ==
    \A i, j \in Calls :
        (i < j /\ wlog[j].start - wlog[i].start < CacheTtlMs)
            => /\ ~wlog[j].net
               /\ (wlog[i].done /\ wlog[j].done) => wlog[j].ret = wlog[i].ret

\* the slot a call found holds a snapshot younger than the TTL
FoundFresh(e) == e.slot0.data.some /\ e.start - e.slot0.timestamp < CacheTtlMs

\* the slot a call found holds a snapshot as old as the TTL or older
FoundExpired(e) == e.slot0.data.some /\ e.start - e.slot0.timestamp >= CacheTtlMs

\* C4 (amended): a getWeather call that finds a snapshot in the slot whose
\* timestamp is less than 10 minutes old issues no network request and
\* returns the very object in the slot, which an earlier fetching call
\* returned, whatever city either call asked for.
C4_FreshSlotServesCachedObject ==
    \A j \in Calls :
        FoundFresh(wlog[j])
            => /\ ~wlog[j].net
               /\ wlog[j].done
               /\ wlog[j].ret = wlog[j].slot0.data
               /\ wlog[j].slot1 = wlog[j].slot0
               /\ \E i \in Calls : i < j /\ wlog[i].net /\ wlog[i].done
                                   /\ wlog[i].ret = wlog[j].ret

\* C4 witness: a call for one city is served the object fetched for another
C4_Witness ==
    \E i, j \in Calls :
        /\ i < j
        /\ wlog[i].net /\ wlog[i].done /\ wlog[i].ret.some
        /\ FoundFresh(wlog[j])
        /\ ~wlog[j].net /\ wlog[j].ret = wlog[i].ret
        /\ wlog[j].city # wlog[i].city

\* C5: a getWeather call that finds a snapshot 10 minutes old or older goes
\* to the network and never returns that snapshot: it returns null, or an
\* object of its own making which it stores with the time it started.
C5_ExpiredSlotRefetches ==
    \A j \in Calls :
        FoundExpired(wlog[j])
            => /\ wlog[j].net
               /\ wlog[j].done =>
                    /\ wlog[j].ret # wlog[j].slot0.data
                    /\ \/ ~wlog[j].ret.some
                       \/ /\ wlog[j].ret.some
                          /\ wlog[j].ret.oid = wlog[j].rid
                          /\ wlog[j].slot1 = [data |-> wlog[j].ret,
                                              timestamp |-> wlog[j].start]

\* C5 witness: a call found a snapshot exactly 10 minutes old and replaced it
C5_Witness ==
    \E j \in Calls :
        /\ FoundExpired(wlog[j])
        /\ wlog[j].start - wlog[j].slot0.timestamp = CacheTtlMs
        /\ wlog[j].done /\ wlog[j].ret.some
        /\ weatherCache.data = wlog[j].ret

\* the opening of a weather annotation
WeatherTag == <<"[","W","e","a","t","h","e","r",":">>

\* the positions at which k occurs in s
Occurrences(s, k) ==
    {i \in 1..(Len(s) - Len(k) + 1) : SubSeq(s, i, i + Len(k) - 1) = k}

\* a chat request of part_000 whose text has been handed to the model
Sent(s) == req[s].kind = "chat" /\ req[s].called

\* C6: a message holding none of the weather keywords (in any letter case)
\* reaches the model without a weather annotation, whatever the cache holds.
C6_NoAnnotationWithoutKeyword ==
    \A s \in Slots :
        (Sent(s) /\ ~IsWeatherQuestion(req[s].msg.s))
            => Occurrences(req[s].sent.s, WeatherTag) = {}

\* C6 witness: such a message is sent while the cache holds a fresh snapshot
C6_Witness ==
    \E s \in Slots :
        /\ Sent(s) /\ ~IsWeatherQuestion(req[s].msg.s)
        /\ weatherCache.data.some
        /\ now - weatherCache.timestamp < CacheTtlMs

\* an integer written at position i of s: its value and the position after it
ReadInt(s, i) ==
    LET neg == i <= Len(s) /\ s[i] = "-"
        d == ScanDigits(s, IF neg THEN i + 1 ELSE i, 0)
    IN [pos |-> d.pos, n |-> IF neg THEN 0 - d.n ELSE d.n]

\* the text from position i up to the first occurrence of k at or after i
UpTo(s, i, k) ==
    LET at == {p \in Occurrences(s, k) : p >= i}
    IN IF at = {} THEN [found |-> FALSE, pos |-> 0]
       ELSE [found |-> TRUE, pos |-> CHOOSE p \in at : \A q \in at : p <= q]

\* text ends with an annotation whose fields are those of snapshot w
AnnotationShows(text, w) ==
    \E p \in Occurrences(text, WeatherTag) :
        LET t == ReadInt(text, p + Len(WeatherTag) + 1)
            f == ReadInt(text, t.pos + Len(LitFeels))
            h == UpTo(text, f.pos, LitHumidity)
            u == ReadInt(text, h.pos + Len(LitHumidity))
            v == ReadInt(text, u.pos + Len(LitWind))
            c == v.pos + Len(LitMphIn)
        IN /\ t.n = w.temp
           /\ StartsWith(text, t.pos, LitFeels)
           /\ f.n = w.feels
           /\ StartsWith(text, f.pos, LitFeelsEnd)
           /\ h.found
           /\ SubSeq(text, f.pos + Len(LitFeelsEnd), h.pos - 1) = w.desc
           /\ u.n = w.humidity
           /\ StartsWith(text, u.pos, LitWind)
           /\ v.n = w.wind
           /\ StartsWith(text, v.pos, LitMphIn)
           /\ SubSeq(text, c, Len(text)) = w.city \o <<"]">>

\* C7: a message holding a weather keyword, with the key configured and a
\* snapshot obtained, reaches the model with exactly one weather annotation,
\* which shows that snapshot's temperature, feels-like, description,
\* humidity, wind and city.
C7_OneAnnotationOfSnapshot ==
    \A s \in Slots :
        (Sent(s) /\ IsWeatherQuestion(req[s].msg.s) /\ weatherKey
                 /\ req[s].weather.some)
            => /\ Cardinality(Occurrences(req[s].sent.s, WeatherTag)) = 1
               /\ AnnotationShows(req[s].sent.s, req[s].weather)

\* C7 witness: a keyword in mixed case inside a word, a snapshot below zero
C7_Witness ==
    \E s \in Slots :
        /\ Sent(s) /\ req[s].msg = MsgPhoto /\ weatherKey
        /\ req[s].weather.some /\ req[s].weather.temp < 0


\* the text has no "{" with a "}" after it
NoBracePair(text) ==
    ~\E i, j \in 1..Len(text) : i < j /\ text[i] = "{" /\ text[j] = "}"

\* the text has a brace-delimited substring that JSON.parse rejects
ExtractFailsToDecode(text) ==
    LET m == BraceMatch(TrimText(text))
    IN m.found /\ ~JsonParse(m.s).ok

\* the model's texts from which the handler can extract or decode nothing
UndecodableTexts ==
    {t \in ModelTexts : NoBracePair(t) \/ ExtractFailsToDecode(t)}

\* the model answered the last parse request with a text
ParseAnswered == lastResp.ep = "parse" /\ "text" \in DOMAIN lastResp.body

Fields == {"isReminder", "task", "minutesFromNow", "recurring", "intervalMinutes"}

\* C8: when the model answers a parse request with a text that has no
\* brace-delimited substring, or whose extracted substring cannot be decoded,
\* the response is 200 with exactly the default record.
C8_UndecodableGivesDefault ==
    (ParseAnswered /\ lastResp.body.text \in UndecodableTexts)
        => /\ lastResp.status = 200
           /\ lastResp.body.k = "reminder"
           /\ lastResp.body.rec = DefaultReminder

\* C8 witness: the lazy pattern stops at a "}" inside a string and the
\* extract does not decode
C8_Witness ==
    /\ ParseAnswered
    /\ lastResp.body.text = TextBraceInString
    /\ ExtractFailsToDecode(lastResp.body.text)
    /\ lastResp.status = 200

\* C9 (as claimed): every parse request with a non-empty message is answered
\* with a record of all five fields, the default record when there is no
\* model or the model call fails.
C9_AlwaysFiveFields ==
    (lastResp.ep = "parse" /\ Truthy(lastResp.msg))
        => /\ lastResp.body.k = "reminder"
           /\ DOMAIN lastResp.body.rec = Fields
           /\ (model = NoModel \/ ~ParseAnswered) => lastResp.body.rec = DefaultReminder

\* C9 (amended): a parse request with a non-empty message is answered 503
\* with an error body when there is no model, 500 with an error body when
\* the model call fails, and otherwise 200 with a record of all five fields,
\* the default record when the model's text cannot be extracted or decoded.
C9_FiveFieldsOrTransportError ==
    (lastResp.ep = "parse" /\ Truthy(lastResp.msg))
        => \/ /\ model = NoModel
              /\ ~lastResp.called
              /\ lastResp.status = 503 /\ lastResp.body = ErrorBody
           \/ /\ model # NoModel
              /\ lastResp.called /\ ~ParseAnswered
              /\ lastResp.status = 500 /\ lastResp.body = ErrorBody
           \/ /\ model # NoModel
              /\ lastResp.called /\ ParseAnswered
              /\ lastResp.status = 200
              /\ DOMAIN lastResp.body.rec = Fields
              /\ lastResp.body.text \in UndecodableTexts
                    => lastResp.body.rec = DefaultReminder

\* C9 witness: the model call of a parse request failed
C9_Witness ==
    /\ lastResp.ep = "parse" /\ Truthy(lastResp.msg)
    /\ lastResp.called /\ lastResp.status = 500

\* C10 (as claimed): in every 200 response of the parse endpoint isReminder
\* and recurring are booleans, task is a string, minutesFromNow and
\* intervalMinutes are numbers.
C10_FieldsAreTyped ==
    (lastResp.ep = "parse" /\ lastResp.status = 200)
        => /\ lastResp.body.rec.isReminder.t = "boolean"
           /\ lastResp.body.rec.recurring.t = "boolean"
           /\ lastResp.body.rec.task.t = "string"
           /\ lastResp.body.rec.minutesFromNow.t = "number"
           /\ lastResp.body.rec.intervalMinutes.t = "number"


\* the error text holds one of the phrases
HasPhrase(e, phrases) == e.t = "string" /\ \E p \in phrases : Includes(e.s, p)

RatePhrases == {<<"4","2","9">>, <<"q","u","o","t","a">>, <<"r","a","t","e">>}
AuthPhrases ==
    {<<"A","P","I"," ","k","e","y">>,
     <<"a","u","t","h","e","n","t","i","c","a","t","i","o","n">>}

\* the model call of the last chat request threw
ChatThrew ==
    lastResp.ep = "chat" /\ lastResp.called /\ "message" \in DOMAIN lastResp.body

\* C11 (as claimed): when the model call of a chat of part_000 throws, the
\* status is 429 whenever the error text holds a rate-limit phrase, 503
\* whenever it holds an auth-error phrase, and 500 exactly when it holds neither.
C11_StatusFollowsErrorText ==
    (version = "part_000" /\ ChatThrew)
        => /\ HasPhrase(lastResp.body.message, RatePhrases) => lastResp.status = 429
           /\ HasPhrase(lastResp.body.message, AuthPhrases) => lastResp.status = 503
           /\ lastResp.status = 500 <=>
                 (/\ ~HasPhrase(lastResp.body.message, RatePhrases)
                  /\ ~HasPhrase(lastResp.body.message, AuthPhrases))


\* initializeAI has run to its end
Initialized == HasHandshake(version) /\ probe = 0

\* the handshakes were made in list order, each after a failed one, and the
\* model is the one whose handshake succeeded, null when none did
ProbedInOrder ==
    /\ Len(plog) <= Len(ModelOptions(version))
    /\ \A j \in 1..Len(plog) :
          /\ plog[j].name = ModelOptions(version)[j]
          /\ plog[j].ok => j = Len(plog)
    /\ IF plog # <<>> /\ plog[Len(plog)].ok
       THEN model = plog[Len(plog)].name
       ELSE /\ model = NoModel
            /\ Len(plog) = (IF apiKey THEN Len(ModelOptions(version)) ELSE 0)

\* C12 (as claimed): once initializeAI has ended the model is the first
\* name of the list whose handshake succeeded and no later name was probed;
\* when every handshake failed or the key is missing the model is null and
\* every chat request is answered 503.
C12_FirstWorkingModel ==
    Initialized
        => /\ ProbedInOrder
           /\ (model = NoModel /\ lastResp.ep = "chat") => lastResp.status = 503

\* C12 (amended): as above, with the chat requests answered 503 when their
\* message is non-empty and 400 when it is empty or missing.
C12_FirstWorkingModelOr400 ==
    Initialized
        => /\ ProbedInOrder
           /\ (model = NoModel /\ lastResp.ep = "chat")
                 => /\ ~lastResp.called
                    /\ lastResp.status = (IF Truthy(lastResp.msg) THEN 503 ELSE 400)

\* C12 witness: the first handshake failed, the second succeeded, and a chat
\* was then handed to that model
C12_Witness ==
    /\ Initialized
    /\ Len(plog) = 2 /\ ~plog[1].ok /\ plog[2].ok
    /\ model = ModelOptions(version)[2]
    /\ lastResp.ep = "chat" /\ lastResp.status = 200


\* C13 (as claimed): a health response given while no model is available
\* reports status 'degraded' (the model, once set, is never unset, so a model
\* that is null now was null when the response was given).
C13_DegradedWithoutModel ==
    (lastResp.ep = "health" /\ model = NoModel)
        => lastResp.body.status = "degraded"


\* the first chat handed to the model after the last clear
FirstAfterClear(s) ==
    clearedAt > 0 /\ req[s].kind = "chat" /\ req[s].called /\ req[s].rid = clearedAt

\* C14 (as claimed): the first chat handed to the model after a clear has
\* responded carries a history with no turn of a request received before
\* that clear, requests that were awaiting the model during it included.
C14_NoTurnFromBeforeClear ==
    \A s \in Slots :
        FirstAfterClear(s)
            => \A i \in 1..Len(req[s].hist) : req[s].hist[i].rid >= clearedAt


\* the record of the prompt's first example
StretchRecord ==
    [isReminder |-> Bool(TRUE), task |-> Str(<<"s","t","r","e","t","c","h">>),
     minutesFromNow |-> Num(30), recurring |-> Bool(FALSE),
     intervalMinutes |-> Num(0)]

\* C15 (as claimed): the message "remind me in 30 minutes to stretch" is
\* answered with the record of the first example, the message "what's the
\* weather" with the default record.
C15_ExamplesEndToEnd ==
    (lastResp.ep = "parse" /\ lastResp.msg \in ExampleMessages)
        => /\ lastResp.status = 200
           /\ lastResp.body.k = "reminder"
           /\ lastResp.body.rec =
                 (IF lastResp.msg = MsgStretch THEN StretchRecord ELSE DefaultReminder)

\* C15 (amended): each of the two messages is answered with the record of
\* its example when the model answers it with the JSON text of that example.
C15_ExamplesGivenModelText ==
    (ParseAnswered /\ lastResp.msg \in ExampleMessages)
        => /\ (lastResp.msg = MsgStretch /\ lastResp.body.text = TextFull)
                 => (lastResp.status = 200 /\ lastResp.body.rec = StretchRecord)
           /\ (lastResp.msg = MsgWeatherQ /\ lastResp.body.text = TextDefault)
                 => (lastResp.status = 200 /\ lastResp.body.rec = DefaultReminder)

\* C15 witness: the first example, answered with its JSON text
C15_Witness ==
    /\ ParseAnswered
    /\ lastResp.msg = MsgStretch
    /\ lastResp.body.text = TextFull
    /\ lastResp.body.rec = StretchRecord


\* C16 (as claimed): in the stored history the model reply of a request
\* comes right after the user turn of that same request, with no turn of
\* another request between the two, also when requests overlap.
C16_PairsStayTogether ==
    \A j \in 2..Len(history) :
        history[j].role = "model"
            => /\ history[j - 1].role = "user"
               /\ history[j - 1].rid = history[j].rid


\* the roles of the turns handed to the model for the request in slot s: the
\* persona pair, the history given to startChat, the outgoing message
RolesHanded(s) ==
    <<"user", "model">> \o [i \in 1..Len(req[s].hist) |-> req[s].hist[i].role]
        \o <<"user">>

\* C17 (as claimed): the turns handed to the model for a chat alternate
\* between user and model, from the persona's user turn to the outgoing
\* user message.
C17_RolesAlternate ==
    \A s \in Slots :
        (req[s].kind = "chat" /\ req[s].called)
            => \A i \in 1..Len(RolesHanded(s)) :
                  RolesHanded(s)[i] = (IF i % 2 = 1 THEN "user" ELSE "model")


\* C18 (as claimed): a chat request that ends with a status other than 200
\* leaves the stored history as it was before the request began; in
\* particular the history holds no turn of that request when it responds.
C18_FailedChatLeavesNoTurn ==
    (lastResp.ep = "chat" /\ lastResp.status # 200 /\ lastResp.rid > 0)
        => \A i \in 1..Len(history) : history[i].rid # lastResp.rid


\* handshakes issued so far: those that ended and the one in flight
ProbesIssued == Len(plog) + (IF probe > 0 THEN 1 ELSE 0)

\* in a step the model either stays, or goes from null to the model whose
\* handshake was in flight
ModelSetOnce ==
    model' # model
        => /\ model = NoModel
           /\ probe > 0
           /\ model' = ModelOptions(version)[probe]

SlotFresh == weatherCache.data.some /\ now - weatherCache.timestamp < CacheTtlMs

\* a getWeather call starts in this step
CallStarts == Len(wlog') = Len(wlog) + 1

\* a step in which getWeather is called while the slot is fresh: the call
\* returns the slot's snapshot at once and leaves the slot alone; called by
\* GET /api/weather, the response is 200 with that snapshot whatever ?city=
\* says; called by a chat, the message goes to the model annotated with it
FreshCallServesSlot ==
    (SlotFresh /\ CallStarts)
        => LET e == wlog'[Len(wlog')]
           IN /\ ~e.net /\ e.done
              /\ e.ret = weatherCache.data
              /\ weatherCache' = weatherCache
              /\ nextId' = nextId
                    => /\ lastResp'.ep = "weather"
                       /\ lastResp'.status = 200
                       /\ lastResp'.body = [k |-> "weather", info |-> weatherCache.data]
                       /\ CityOf(lastResp'.msg) = e.city
              /\ nextId' # nextId
                    => \E s \in Slots :
                          /\ req'[s].rid = e.rid
                          /\ req'[s].kind = "chat" /\ req'[s].called
                          /\ IsWeatherQuestion(req'[s].msg.s)
                          /\ Cardinality(Occurrences(req'[s].sent.s, WeatherTag)) = 1
                          /\ AnnotationShows(req'[s].sent.s, weatherCache.data)

\* C20: while the slot is younger than 10 minutes every getWeather call,
\* whatever city it names, returns the slot's snapshot without a network
\* request: GET /api/weather?city=B answers with the snapshot fetched for A,
\* and a chat with a weather keyword is annotated with the slot's snapshot.
C20_FreshSlotServesEveryCity == [][FreshCallServesSlot]_vars

\* C20 witness: five minutes after a fetch for the default city, GET
\* /api/weather?city=Oslo was answered 200 with the default city's snapshot
C20_Witness ==
    /\ lastResp.ep = "weather" /\ lastResp.status = 200 /\ lastResp.rid = 0
    /\ lastResp.msg = Str(OtherCity)
    /\ lastResp.body.info = weatherCache.data
    /\ lastResp.body.info.city = DEFAULT_CITY
    /\ now - weatherCache.timestamp = TickMs
    /\ wlog[Len(wlog)].city = OtherCity /\ ~wlog[Len(wlog)].net


\* call j went to the network and comes back with null in this step
CallFails(j) == wlog[j].net /\ ~wlog[j].done /\ wlog'[j].done /\ ~wlog'[j].ret.some

\* the step in which a fetching getWeather call fails leaves the slot as it
\* was, answers no error to a chat that made the call, and takes that chat
\* on to the model with the message it had before the lookup
FailedFetchKeepsSlot ==
    \A j \in Calls :
        CallFails(j)
            => /\ weatherCache' = weatherCache
               /\ \A s \in Slots :
                     (req[s].rid = wlog[j].rid /\ req[s].kind = "chat")
                         => /\ req'[s].kind = "chat" /\ req'[s].called
                            /\ req'[s].pc = "awaitModel"
                            /\ req'[s].sent = req[s].sent
                            /\ lastResp' = lastResp

\* C21: a getWeather call whose fetch fails returns null and leaves the slot
\* (data and timestamp) unchanged; a chat whose weather lookup returned null
\* is handed to the model without a weather annotation.
C21_FailedFetchIsSilent ==
    /\ [](\A s \in Slots :
            (Sent(s) /\ req[s].asked /\ ~req[s].weather.some)
                => /\ Occurrences(req[s].sent.s, WeatherTag) = {}
                   /\ \E ct \in ClientTimes :
                         req[s].sent = OutgoingMessage(version, req[s].msg, ct))
    /\ [][FailedFetchKeepsSlot]_vars

\* C21 witness: a weather question whose fetch failed was answered 200 by
\* the model
C21_Witness ==
    /\ lastResp.ep = "chat" /\ lastResp.status = 200
    /\ IsWeatherQuestion(lastResp.msg.s)
    /\ \E j \in Calls :
          /\ wlog[j].rid = lastResp.rid
          /\ wlog[j].net /\ wlog[j].done /\ ~wlog[j].ret.some
          /\ wlog[j].slot1 = wlog[j].slot0


\* the JSON objects with all five reminder fields that a text holds, as the
\* member lists JSON.parse gives for them
FiveFieldObjects(text) ==
    { JsonParse(SubSeq(text, a, b)).members :
        <<a, b>> \in { p \in (1..Len(text)) \X (1..Len(text)) :
                         /\ p[1] < p[2]
                         /\ text[p[1]] = "{" /\ text[p[2]] = "}"
                         /\ LET o == JsonParse(SubSeq(text, p[1], p[2]))
                            IN /\ o.ok
                               /\ \A k \in {KeyIsReminder, KeyTask, KeyMinutesFromNow,
                                            KeyRecurring, KeyIntervalMinutes} :
                                     \E i \in 1..Len(o.members) : o.members[i].key = k } }

\* the five-field objects of each of the model's texts, computed once
FiveFieldTable == [t \in ModelTexts |-> FiveFieldObjects(t)]

\* a decoded value, or its zero value when it is falsy
ValueOr(v, zero) == IF Truthy(v) THEN v ELSE zero

\* the five values of an object, each falsy one replaced by its zero value
ValuesOf(members) ==
    [isReminder |-> ValueOr(Field(members, KeyIsReminder), Bool(FALSE)),
     task |-> ValueOr(Field(members, KeyTask), Str(<<>>)),
     minutesFromNow |-> ValueOr(Field(members, KeyMinutesFromNow), Num(0)),
     recurring |-> ValueOr(Field(members, KeyRecurring), Bool(FALSE)),
     intervalMinutes |-> ValueOr(Field(members, KeyIntervalMinutes), Num(0))]

\* C22: when the model's text for a parse request holds a valid JSON object
\* with the five reminder fields, bare or wrapped in prose or fences, the
\* response is 200 with the values of such an object, each falsy value
\* replaced by its zero value.
C22_FiveFieldObjectIsReturned ==
    (ParseAnswered /\ FiveFieldTable[lastResp.body.text] # {})
        => /\ lastResp.status = 200
           /\ \E o \in FiveFieldTable[lastResp.body.text] :
                 lastResp.body.rec = ValuesOf(o)


\* what JSON.parse gives for the extract of each of the model's texts,
\* computed once (not ok when nothing is extracted or the extract is rejected)
DecodedTable == [t \in ModelTexts |-> JsonParse(BraceMatch(TrimText(t)).s)]

\* the key each output field reads and the zero value it falls back to
FieldSource ==
    [isReminder |-> [key |-> KeyIsReminder, zero |-> Bool(FALSE)],
     task |-> [key |-> KeyTask, zero |-> Str(<<>>)],
     minutesFromNow |-> [key |-> KeyMinutesFromNow, zero |-> Num(0)],
     recurring |-> [key |-> KeyRecurring, zero |-> Bool(FALSE)],
     intervalMinutes |-> [key |-> KeyIntervalMinutes, zero |-> Num(0)]]

\* C23: when the extract decodes, each of the five output fields is the
\* decoded value of its own key when that value is truthy and its zero value
\* (false, '', 0) otherwise, whatever the other fields hold, and the response
\* has no key besides the five.
C23_EachFieldDefaultedAlone ==
    (ParseAnswered /\ DecodedTable[lastResp.body.text].ok)
        => /\ lastResp.status = 200
           /\ DOMAIN lastResp.body.rec = Fields
           /\ \A f \in Fields :
                 lastResp.body.rec[f] =
                     ValueOr(Field(DecodedTable[lastResp.body.text].members,
                                   FieldSource[f].key),
                             FieldSource[f].zero)

\* C23 witness: a decoded object with null, absent and truthy fields; the
\* truthy ones are kept (recurring true, intervalMinutes -1), the others zero
C23_Witness ==
    /\ ParseAnswered
    /\ lastResp.body.text = TextNulls
    /\ DecodedTable[TextNulls].ok
    /\ Field(DecodedTable[TextNulls].members, KeyIsReminder) = Null
    /\ lastResp.body.rec.isReminder = Bool(FALSE)
    /\ lastResp.body.rec.minutesFromNow = Num(0)
    /\ lastResp.body.rec.recurring = Bool(TRUE)
    /\ lastResp.body.rec.intervalMinutes = Num(0 - 1)


\* a step of the parse-reminder handler: it answers, or a request of its kind
\* enters or leaves a slot
ParseStep ==
    \/ lastResp' # lastResp /\ lastResp'.ep = "parse"
    \/ \E s \in Slots :
          req'[s] # req[s] /\ (req[s].kind = "parse" \/ req'[s].kind = "parse")

\* C24: no step of the parse-reminder handler changes the history or the
\* weather slot; what it sends is the prompt built from the message alone,
\* with no stored turn; and it calls the model exactly when a model exists
\* and the message is non-empty, answering 503 without a model (whatever the
\* message) and 400 for an empty message otherwise.
C24_ParseLeavesHistoryAndCache ==
    /\ [][ParseStep => /\ history' = history
                       /\ appended' = appended
                       /\ weatherCache' = weatherCache
                       /\ wlog' = wlog]_vars
    /\ [](\A s \in Slots :
            req[s].kind = "parse"
                => /\ req[s].hist = <<>>
                   /\ req[s].sent = Str(ParsePrompt(req[s].msg))
                   /\ model # NoModel /\ Truthy(req[s].msg))
    /\ [](lastResp.ep = "parse"
            => /\ lastResp.called <=> (model # NoModel /\ Truthy(lastResp.msg))
               /\ model = NoModel => lastResp.status = 503
               /\ (model # NoModel /\ ~Truthy(lastResp.msg)) => lastResp.status = 400)

\* C24 witness: a parse request was answered by the model while the history
\* held an answered chat and the slot a snapshot, both left in place
C24_Witness ==
    /\ lastResp.ep = "parse" /\ lastResp.called /\ lastResp.status = 200
    /\ Len(history) = 2
    /\ weatherCache.data.some
    /\ lastResp.rid > history[2].rid


\* request ids given out in a run of SpecBlocked
BlockedIds == 1..MaxChats

\* the request with id r is in flight outside the first slot
InFlightElsewhere(r) ==
    \E s \in OtherSlots : req[s].kind # "idle" /\ req[s].rid = r

\* the request with id r has just been answered
Answered(r) ==
    /\ lastResp.rid = r /\ lastResp.ep \in {"chat", "parse", "weather"}
    /\ \A s \in Slots : req[s].rid # r

\* C25: while the request in the first slot waits for an upstream call that
\* never returns, every other request that waits for the model or the
\* weather provider is answered once its own calls return, and no request
\* still in flight has been answered already (one response each).
C25_BlockedCallBlocksOnlyItself ==
    /\ \A r \in BlockedIds : InFlightElsewhere(r) ~> Answered(r)
    /\ [](\A s \in Slots :
            req[s].kind # "idle"
                => ~(lastResp.rid = req[s].rid /\ lastResp.ep = req[s].kind))

\* C25 witness: a chat that arrived after the blocked request was answered
\* 200 while the blocked request still waits
C25_Witness ==
    /\ req[HungSlot].kind # "idle"
    /\ lastResp.ep = "chat" /\ lastResp.status = 200
    /\ lastResp.rid > req[HungSlot].rid
    /\ \A s \in OtherSlots : req[s].kind = "idle"

====
